---- MODULE Spec2Model ----
(***************************************************************************)
(* Command dispatch fan-out of the IoT cloud platform.                     *)
(*                                                                         *)
(*   cloud_platform/application/client_http.py                             *)
(*       _build_url, send_http_command, send_command_to_all_devices        *)
(*   cloud_platform/application/operator_api.py                            *)
(*       DeviceResult, EdgeResults, send_command                           *)
(*   config/config.py                                                      *)
(*       Config.EDGE_DEVICES                                               *)
(*                                                                         *)
(* One behaviour is one run of the send_command handler: the request is    *)
(* validated, the targets are resolved, one task per target is submitted   *)
(* to a thread pool, the workers post concurrently, the calling thread     *)
(* collects the futures in completion order, and the handler validates     *)
(* and summarises the collected mapping.                                   *)
(*                                                                         *)
(* Python values are records.  A dict is a record whose DOMAIN is the set  *)
(* of keys present; optional values carry a "type" tag so that values of   *)
(* different Python types stay comparable.                                 *)
(***************************************************************************)
EXTENDS Naturals, Integers, Sequences, FiniteSets, TLC

VARIABLES
    EDGE_DEVICES,   \* cfg.EDGE_DEVICES: ordered dict, a sequence of <<id, base_url>>
    world,          \* what a POST to a device may do in this run (set of behaviours)
    request,        \* the HTTP request send_command is handling
    patched,        \* unittest.mock.patch of send_command_to_all_devices, if any
    pc,             \* position of the handler (the calling thread)
    devices,        \* local `devices` of send_command_to_all_devices
    max_workers,    \* size of the ThreadPoolExecutor
    future,         \* device id -> state of its future
    posts,          \* device id -> the requests.post calls issued to it, in order
    results,        \* local `results`: device id -> entry
    collected,      \* device ids in the order as_completed yielded them
    response        \* what send_command gave back to Flask

vars == <<EDGE_DEVICES, world, request, patched, pc, devices, max_workers, future,
          posts, results, collected, response>>

----------------------------------------------------------------------------
(* Bounds of the model.                                                    *)

\* Number of registry entries a run may be configured with.
MaxDevices == 2
\* Longest explicit gateway_id list of a request.
MaxIds == 2
\* Longest records list in a device's JSON body.
MaxRecords == 2
\* Longest base address of a device, in tokens.
MaxUrlLen == 3

----------------------------------------------------------------------------
(* Python values.                                                          *)

None == [type |-> "None"]
ABSENT == "<absent>"          \* a string-valued key that is not in a dict
MISSING == [type |-> "missing"]   \* a key that is not in a dict, any value type

Str(s) == [type |-> "str", text |-> s]
List(xs) == [type |-> "list", items |-> xs]
Num(n) == [type |-> "int", value |-> n]
\* A JSON object of a device body; only its "records" key is ever read
\* (MISSING when the object has no such key).
Object(records) == [type |-> "dict", records |-> records]
\* One entry of a records list: a JSON object with optional "id" and "status".
Record(id, status) == [type |-> "dict", id |-> id, status |-> status]

\* The range of a sequence.
Range(s) == {s[i] : i \in DOMAIN s}

\* Ordered-dict helpers: a dict is a sequence of <<key, value>> with unique keys.
Keys(d) == {d[i][1] : i \in DOMAIN d}
KeySeq(d) == [i \in DOMAIN d |-> d[i][1]]

\* Exceptions: a class and str(e).
Exc(class, desc) == [class |-> class, desc |-> desc]

\* The classes of the model with their base classes (isinstance).
Bases(class) ==
    CASE class = "ConnectionError" -> {"ConnectionError", "RequestException", "Exception"}
      [] class = "Timeout" -> {"Timeout", "RequestException", "Exception"}
      [] class = "JSONDecodeError" ->
            {"JSONDecodeError", "RequestException", "ValueError", "Exception"}
      [] OTHER -> {class, "Exception"}

IsInstance(e, class) == class \in Bases(e.class)

----------------------------------------------------------------------------
(* config/config.py: the registry.                                         *)
(* A URL is a sequence of tokens: the single character "/" or a run of     *)
(* characters without "/" at its end.                                      *)

DEFAULT_EDGE_DEVICES ==
    << <<"device_01", <<"http://192.168.1.10:5000">> >>,
       <<"device_02", <<"http://192.168.1.11:5001">> >>,
       <<"device_03", <<"http://192.168.1.12:5002">> >>,
       <<"device_04", <<"http://192.168.1.13:5003">> >> >>

\* An id no registry holds.
UNKNOWN_DEVICE == "device_99"

\* The registries a run may be configured with: the first k default entries.
Registries == {SubSeq(DEFAULT_EDGE_DEVICES, 1, k) : k \in 0..MaxDevices}

----------------------------------------------------------------------------
(* client_http.py: _build_url and send_http_command.                       *)

RECURSIVE rstrip_slash(_)
rstrip_slash(u) ==
    IF u # <<>> /\ u[Len(u)] = "/" THEN rstrip_slash(SubSeq(u, 1, Len(u) - 1)) ELSE u

\* Mutant: "/notify" is appended to the base address as it is.
_build_url_NoStrip(base_url) == base_url \o <<"/", "notify">>

_build_url(base_url) == rstrip_slash(base_url) \o <<"/", "notify">>

\* Mutant: the sensors argument is sent as given.
Payload_AsGiven(command, sensors) == [command |-> command, sensors |-> sensors]

\* payload = {"command": command, "sensors": sensors} if sensors is not None
\*           else {"command": command, "sensors": []}
Payload(command, sensors) ==
    IF sensors # None THEN [command |-> command, sensors |-> sensors]
    ELSE [command |-> command, sensors |-> List(<<>>)]

\* requests.post(url, json=payload, timeout=10)
HTTP_TIMEOUT == 10

PostCall(device_url, command, sensors) ==
    [url |-> _build_url(device_url),
     json |-> Payload(command, sensors),
     timeout |-> HTTP_TIMEOUT]

\* What a worker hands to its future.
Returned(v) == [kind |-> "returned", value |-> v]
Raised(e) == [kind |-> "raised", exc |-> e]

\* except requests.RequestException as e:
SendCatches(e) == IsInstance(e, "RequestException")

(* A behaviour b says how requests.post ends (b.net: a response, or an     *)
(* exception) and how the logger call that follows ends (b.log: None, or   *)
(* the exception it raises).  logger.info runs inside the try block, and   *)
(* logger.error inside the except clause.                                  *)
send_http_command(device_url, command, sensors, b) ==
    LET tried == IF b.net.kind = "response"
                 THEN IF b.log = None THEN Returned(b.net) ELSE Raised(b.log)
                 ELSE Raised(b.net.exc)
    IN  IF tried.kind = "raised" /\ SendCatches(tried.exc)
        THEN IF b.log = None THEN Returned(None) ELSE Raised(b.log)
        ELSE tried

----------------------------------------------------------------------------
(* The devices' side: responses and the ways a POST can end.               *)

\* response.json() of a body that is not JSON raises; the marker stands for it.
UNDECODABLE == [type |-> "undecodable"]

\* A requests.Response: status_code, the content-type header (ABSENT when the
\* header is missing), .text, and what .json() decodes .text to.
Response(code, ctype, text, json) ==
    [kind |-> "response", status_code |-> code, content_type |-> ctype,
     text |-> text, json |-> json]

Failure(e) == [kind |-> "raises", exc |-> e]

Behaviour(net, log) == [net |-> net, log |-> log]

JSON_CT == "application/json"

\* The records lists of the device bodies: entries with or without id and status.
RecordIds == {ABSENT, "t1", "x1"}
RecordStatuses == {ABSENT, "OK", "ERROR"}
Records == {Record(i, s) : i \in RecordIds, s \in RecordStatuses}

RECURSIVE SeqsUpTo(_, _)
SeqsUpTo(S, n) ==
    IF n = 0 THEN {<<>>}
    ELSE LET shorter == SeqsUpTo(S, n - 1)
         IN  shorter \cup {Append(q, x) : q \in {r \in shorter : Len(r) = n - 1}, x \in S}

\* The documented body (client_http.py:35-65): one OK and one ERROR record.
DOCUMENTED_BODY == Object(List(<<Record("t1", "OK"), Record("x1", "ERROR")>>))

Json200 == Response(200, JSON_CT, "{records}", DOCUMENTED_BODY)
Json500 == Response(500, "application/json; charset=utf-8", "{error}", Object(MISSING))
Text200 == Response(200, "text/plain", "pong", UNDECODABLE)
NoHeader404 == Response(404, ABSENT, "Not Found", UNDECODABLE)
BadJson200 == Response(200, JSON_CT, "<html>", UNDECODABLE)
JsonArray200 == Response(200, JSON_CT, "[]", List(<<>>))
JsonNull200 == Response(200, JSON_CT, "null", None)

TimedOut == Failure(Exc("Timeout", "Read timed out. (read timeout=10)"))
\* Exceptions requests does not wrap; str(MemoryError()) is the empty string.
Unexpected == Failure(Exc("RuntimeError", "boom"))
OutOfMemory == Failure(Exc("MemoryError", ""))
\* A logging filter or handler that raises.
LogFails == Exc("RuntimeError", "logging failed")

\* The behaviours of the main specification.
World ==
    {Behaviour(n, None) :
        n \in {Json200, Json500, Text200, NoHeader404, BadJson200, JsonArray200,
               JsonNull200, TimedOut, Unexpected, OutOfMemory}}
    \cup {Behaviour(Json200, LogFails), Behaviour(TimedOut, LogFails)}

----------------------------------------------------------------------------
(* client_http.py: the body of the as_completed loop.                      *)

SuccessEntry(code, body) == [status |-> "success", code |-> code, body |-> body]
ErrorEntry(desc) == [status |-> "error", error |-> desc]

\* "application/json" in content_type, with headers.get("content-type", "").
ContainsApplicationJson(ctype) ==
    ctype \in {"application/json", "application/json; charset=utf-8"}

JSON_DECODE_ERROR == Exc("JSONDecodeError", "Expecting value: line 1 column 1 (char 0)")

\* Mutant: a JSON body that does not decode is kept as raw text.
TryCollect_TextFallback(result) ==
    IF result.kind = "raised" THEN Raised(result.exc)
    ELSE IF result.value # None THEN
        LET r == result.value IN
        IF ContainsApplicationJson(r.content_type) /\ r.json # UNDECODABLE
        THEN Returned(SuccessEntry(r.status_code, r.json))
        ELSE Returned(SuccessEntry(r.status_code, Str(r.text)))
    ELSE Returned(ErrorEntry("No response from device."))

\* The try block: future.result() re-raises what the worker raised, and
\* response.json() raises on a body that does not decode.
TryCollect(result) ==
    IF result.kind = "raised" THEN Raised(result.exc)
    ELSE IF result.value # None THEN
        LET r == result.value IN
        IF ContainsApplicationJson(r.content_type) THEN
            IF r.json = UNDECODABLE THEN Raised(JSON_DECODE_ERROR)
            ELSE Returned(SuccessEntry(r.status_code, r.json))
        ELSE Returned(SuccessEntry(r.status_code, Str(r.text)))
    ELSE Returned(ErrorEntry("No response from device."))

\* Mutant: the loop catches requests.RequestException only.
CollectCatches_Narrow(e) == IsInstance(e, "RequestException")

\* except Exception as e:
CollectCatches(e) == IsInstance(e, "Exception")

\* The entry the loop body writes, or the exception that leaves the loop.
CollectEntry(result) ==
    LET tried == TryCollect(result)
    IN  IF tried.kind = "raised" /\ CollectCatches(tried.exc)
        THEN Returned(ErrorEntry(tried.exc.desc))
        ELSE tried

----------------------------------------------------------------------------
(* operator_api.py: DeviceResult / EdgeResults and the summaries.          *)

\* status: str; code: int | None = None; body: dict | str | None = None;
\* error: str | None = None.  Keys the model does not declare are ignored.
ValidDeviceResult(entry) ==
    /\ "status" \in DOMAIN entry
    /\ "code" \in DOMAIN entry => entry.code \in Int
    /\ "body" \in DOMAIN entry => entry.body.type \in {"dict", "str", "None"}
    /\ "error" \in DOMAIN entry => entry.error \in STRING

\* Mutant: the mapping is not validated.
ValidEdgeResults_Skipped(edge) == TRUE

\* EdgeResults(edge=edge_results) does not raise ValidationError.
ValidEdgeResults(edge) == \A d \in DOMAIN edge : ValidDeviceResult(edge[d])

\* The fields of an entry that DeviceResult rejects.
InvalidFields(entry) ==
    {f \in {"status"} : f \notin DOMAIN entry}
    \cup {f \in {"code"} : f \in DOMAIN entry /\ entry.code \notin Int}
    \cup {f \in {"body"} : f \in DOMAIN entry /\ entry.body.type \notin {"dict", "str", "None"}}
    \cup {f \in {"error"} : f \in DOMAIN entry /\ entry.error \notin STRING}

\* ve.errors(), by location: the <<device id, field>> pairs that failed.
ValidationErrors(edge) ==
    {p \in (DOMAIN edge) \X {"status", "code", "body", "error"} : p[2] \in InvalidFields(edge[p[1]])}

\* Mutant: an HTTP error status counts as a connection error.
ConnectionStatus_ByCode(edge) ==
    [d \in DOMAIN edge |->
        IF "code" \in DOMAIN edge[d] /\ edge[d].code >= 400 THEN "error" ELSE edge[d].status]

\* connection_status = {device_id: res["status"] for ...}
ConnectionStatus(edge) == [d \in DOMAIN edge |-> edge[d].status]

\* Mutant: the key is the sensor id alone.
SensorKey_SensorOnly(device_id, sensor_id) == sensor_id

\* f"{device_id}:{sensor_id}"
SensorKey(device_id, sensor_id) == device_id \o ":" \o sensor_id

\* record.get("id", "unknown_sensor"), record.get("status", "unknown_status")
RecordId(record) == IF record.id = ABSENT THEN "unknown_sensor" ELSE record.id
RecordStatus(record) == IF record.status = ABSENT THEN "unknown_status" ELSE record.status

\* Mutant: the assignment rebinds the dict to the one new item.
Assign_Rebind(map, key, value) == [k \in {key} |-> value]

\* d[key] = value: a later assignment replaces an earlier one.
Assign(map, key, value) == [k \in DOMAIN map \cup {key} |-> IF k = key THEN value ELSE map[k]]

\* for record in records: ... over a list; a non-dict item has no .get
RECURSIVE RecordLoop(_, _, _)
RecordLoop(map, device_id, items) ==
    IF items = <<>> THEN Returned(map)
    ELSE IF Head(items).type # "dict"
         THEN Raised(Exc("AttributeError", "object has no attribute 'get'"))
         ELSE RecordLoop(Assign(map, SensorKey(device_id, RecordId(Head(items))),
                                RecordStatus(Head(items))),
                         device_id, Tail(items))

\* Iterating res["body"]["records"], whatever JSON value it is.
IterRecords(map, device_id, records) ==
    IF records.type = "list" THEN RecordLoop(map, device_id, records.items)
    ELSE IF records.type = "str"
         THEN IF records.text = "" THEN Returned(map)
              ELSE Raised(Exc("AttributeError", "'str' object has no attribute 'get'"))
         ELSE Raised(Exc("TypeError", "object is not iterable"))

\* The loop over edge_results.items(), in the dict's insertion order.
RECURSIVE SensorsStatus(_, _, _)
SensorsStatus(map, edge, order) ==
    IF order = <<>> THEN Returned(map)
    ELSE LET d == Head(order)
             res == edge[d]
         IN  IF res.status # "success" THEN SensorsStatus(map, edge, Tail(order))
             ELSE IF "body" \notin DOMAIN res THEN Raised(Exc("KeyError", "'body'"))
             ELSE IF res.body.type = "dict" /\ res.body.records # MISSING
                  THEN LET step == IterRecords(map, d, res.body.records)
                       IN  IF step.kind = "raised" THEN step
                           ELSE SensorsStatus(step.value, edge, Tail(order))
                  ELSE SensorsStatus(map, edge, Tail(order))

\* any_success = any(r["status"] == "success" for r in edge_results.values())
AnySuccess(edge) == \E d \in DOMAIN edge : edge[d].status = "success"

\* Mutant: the overall status is "success" only when every device succeeded.
OverallStatus_AllSucceeded(edge) ==
    IF \A d \in DOMAIN edge : edge[d].status = "success" THEN "success" ELSE "error"

\* overall_status = "success" if any_success else "error"
OverallStatus(edge) == IF AnySuccess(edge) THEN "success" ELSE "error"
HttpCode(edge) == IF AnySuccess(edge) THEN 200 ELSE 502

----------------------------------------------------------------------------
(* The requests of the model.                                              *)

\* data: "none" (no JSON body), "empty" ({}), "object".  target: "absent",
\* "empty" ({}), "present".  command_id, issued_by, twin_id: a string or ABSENT.
\* gateway_id, sensor_id: what target.get(...) gives, None when the key is absent.
Request(data, target, twin_id, gateway_id, sensor_id, command_id, issued_by) ==
    [data |-> data, target |-> target, twin_id |-> twin_id, gateway_id |-> gateway_id,
     sensor_id |-> sensor_id, command_id |-> command_id, issued_by |-> issued_by]

ValidRequest(gateway_id, sensor_id) ==
    Request("object", "present", "etna_01", gateway_id, sensor_id, "cmd_01", "operator_01")

KnownIds == Keys(SubSeq(DEFAULT_EDGE_DEVICES, 1, MaxDevices))

GatewayLists == {List(q) : q \in SeqsUpTo(KnownIds \cup {UNKNOWN_DEVICE}, MaxIds)}
SensorLists == {List(<<>>), List(<<"t1">>), List(<<"t1", "aq1">>)}

\* operator_api.py TEST 1 and TEST 2, and the other ways to miss a field.
NoJsonRequest == Request("none", "absent", ABSENT, None, None, ABSENT, ABSENT)
NoCommandRequest == Request("object", "present", "etna_01", None, None, ABSENT, "op_01")
NoTargetRequest == Request("object", "absent", ABSENT, None, None, "cmd_01", "op_01")
NoIssuerRequest == Request("object", "present", "etna_01", None, None, "cmd_01", ABSENT)
\* "target": {} in the body.
EmptyTargetRequest == Request("object", "empty", ABSENT, None, None, "cmd_01", "op_01")
\* "command_id": "" in the body.
EmptyCommandRequest == Request("object", "present", "etna_01", None, None, "", "operator_01")

\* target.gateway_id values that are not lists: a string that has a registered
\* id as a substring, a string that has none, and a number.
GatewayStrings == {Str("device_010"), Str("all")}
GatewayNonLists == GatewayStrings \cup {Num(1)}

Requests ==
    {ValidRequest(g, None) : g \in GatewayLists \cup GatewayNonLists \cup {None}}
    \cup {ValidRequest(None, s) : s \in SensorLists}
    \cup {NoJsonRequest, NoCommandRequest, NoTargetRequest, NoIssuerRequest,
          EmptyTargetRequest, EmptyCommandRequest}

----------------------------------------------------------------------------
(* operator_api.py: send_command, up to the call of the dispatcher.        *)

DEFAULT_TWIN_ID == "etna_01"

NoResponse == [kind |-> "none"]
ErrorResponse(code, message) ==
    [kind |-> "json", code |-> code, status |-> "error", message |-> message]
\* The answer to a mapping that fails validation (line 193).
InvalidStructure(details) ==
    [kind |-> "json", code |-> 502, status |-> "error",
     message |-> "Invalid response structure from devices", details |-> details]
\* An exception that leaves the handler.
Unhandled(e) == [kind |-> "exception", exc |-> e]

\* if not data: ...
NoData(req) == req.data # "object"
\* Mutant: only the command is required.
MissingFields_CommandOnly(req) == req.command_id = ABSENT

\* if not target or "command_id" not in data or "issued_by" not in data: ...
MissingFields(req) ==
    req.target # "present" \/ req.command_id = ABSENT \/ req.issued_by = ABSENT

\* twin_id = target.get("twin_id") or current_app.config["DEFAULT_TWIN_ID"]
TwinId(req) == IF req.twin_id \in {ABSENT, ""} THEN DEFAULT_TWIN_ID ELSE req.twin_id

\* The message of the summary response, by its parts.
Message(req) ==
    [command |-> req.command_id, twin |-> TwinId(req), gateways |-> req.gateway_id,
     sensors |-> req.sensor_id, operator |-> req.issued_by]

\* Mutant: only the default twin's devices are dispatched to.
DispatchArgs_TwinScoped(req) ==
    [command |-> req.command_id, sensors |-> req.sensor_id,
     device_ids |-> IF TwinId(req) = DEFAULT_TWIN_ID THEN req.gateway_id ELSE List(<<>>),
     twin_id |-> TwinId(req)]

\* send_command_to_all_devices(command_id, sensors=sensor_ids,
\*                             device_ids=gateway_ids, twin_id=twin_id)
DispatchArgs(req) ==
    [command |-> req.command_id, sensors |-> req.sensor_id,
     device_ids |-> req.gateway_id, twin_id |-> TwinId(req)]

----------------------------------------------------------------------------
(* client_http.py: send_command_to_all_devices, target resolution.         *)

\* Mutant: the device_ids filter is ignored.
ResolveDevices_NoFilter(registry, device_ids) == registry

\* The registry ids that are substrings of a string, for the strings of the model.
IdsWithin(text) ==
    CASE text = "device_010" -> {"device_01"}
      [] text = "all" -> {}

\* did in device_ids: membership in a list, the substring test on a str.
Contains(device_ids, did) ==
    CASE device_ids.type = "list" -> did \in Range(device_ids.items)
      [] device_ids.type = "str" -> did \in IdsWithin(device_ids.text)

\* did in device_ids raises TypeError when device_ids is a number; the test is
\* evaluated once per registry entry, so not at all on an empty registry.
ResolveRaises(registry, device_ids) ==
    device_ids # None /\ device_ids.type = "int" /\ registry # <<>>

NOT_ITERABLE == Exc("TypeError", "argument of type 'int' is not iterable")

\* devices = {did: url for did, url in devices.items() if did in device_ids}
ResolveDevices(registry, device_ids) ==
    IF device_ids # None
    THEN SelectSeq(registry, LAMBDA e : Contains(device_ids, e[1]))
    ELSE registry

\* Mutant: the pool has no worker.
PoolSize_Zero(devs) == 0

\* Mutant: the pool has a single worker.
PoolSize_Single(devs) == 1

\* Mutant: the pool is sized by the number of targets alone.
PoolSize_Len(devs) == Len(devs)

\* Mutant: the filter deletes the other devices from the registry itself.
RegistryAfterFilter_InPlace(registry, device_ids) ==
    IF device_ids # None
    THEN SelectSeq(registry, LAMBDA e : Contains(device_ids, e[1]))
    ELSE registry

\* cfg.EDGE_DEVICES after lines 107-111: `devices` is first another name for
\* the registry and is then rebound to the dict the comprehension builds; the
\* registry object is not written.
RegistryAfterFilter(registry, device_ids) == registry

\* max_workers=len(devices) or 1
PoolSize(devs) == IF Len(devs) = 0 THEN 1 ELSE Len(devs)

UrlOf(devs, d) == devs[CHOOSE i \in DOMAIN devs : devs[i][1] = d][2]

Running == {d \in DOMAIN future : future[d].state = "running"}
Submitted == {d \in DOMAIN future : future[d].state # "unsubmitted"}

----------------------------------------------------------------------------
(* The state machine.                                                      *)

\* The handler is entered with nothing dispatched yet.
Fresh ==
    /\ pc = "request"
    /\ devices = <<>>
    /\ max_workers = 0
    /\ future = <<>>
    /\ posts = [d \in Keys(EDGE_DEVICES) |-> <<>>]
    /\ results = <<>>
    /\ collected = <<>>
    /\ response = NoResponse

Unpatched == [on |-> FALSE]
Patched(return_value, order) == [on |-> TRUE, return_value |-> return_value, order |-> order]

Init ==
    /\ EDGE_DEVICES \in Registries
    /\ world = World
    /\ request \in Requests
    /\ patched = Unpatched
    /\ Fresh

\* send_command, lines 166-178.
ValidateRequest ==
    /\ pc = "request"
    /\ IF NoData(request)
       THEN /\ response' = ErrorResponse(400, "Invalid JSON in request body")
            /\ pc' = "done"
       ELSE IF MissingFields(request)
       THEN /\ response' = ErrorResponse(400, "Missing required fields: target, command_id, issued_by")
            /\ pc' = "done"
       ELSE /\ pc' = "resolving"
            /\ UNCHANGED response
    /\ UNCHANGED <<EDGE_DEVICES, world, request, patched, devices, max_workers, future,
                   posts, results, collected>>

\* send_command_to_all_devices, lines 107-115: filter, results = {}, the pool.
ResolveTargets ==
    /\ pc = "resolving"
    /\ ~patched.on
    /\ IF ResolveRaises(EDGE_DEVICES, DispatchArgs(request).device_ids)
       THEN /\ response' = Unhandled(NOT_ITERABLE)
            /\ pc' = "done"
            /\ UNCHANGED <<EDGE_DEVICES, devices, results, max_workers, future>>
       ELSE /\ devices' = ResolveDevices(EDGE_DEVICES, DispatchArgs(request).device_ids)
            /\ EDGE_DEVICES' = RegistryAfterFilter(EDGE_DEVICES, DispatchArgs(request).device_ids)
            /\ results' = <<>>
            /\ max_workers' = PoolSize(devices')
            /\ future' = [d \in Keys(devices') |-> [state |-> "unsubmitted"]]
            /\ pc' = "fanning_out"
            /\ UNCHANGED response
    /\ UNCHANGED <<world, request, patched, posts, collected>>

\* executor.submit(send_http_command, url, command, sensors), in dict order.
Submit(i) ==
    /\ pc = "fanning_out"
    /\ i \in DOMAIN devices
    /\ future[devices[i][1]].state = "unsubmitted"
    /\ \A j \in 1..(i - 1) : future[devices[j][1]].state # "unsubmitted"
    /\ future' = [future EXCEPT ![devices[i][1]] = [state |-> "queued"]]
    /\ UNCHANGED <<EDGE_DEVICES, world, request, patched, pc, devices, max_workers,
                   posts, results, collected, response>>

\* The comprehension is over: the calling thread enters as_completed.
BeginCollect ==
    /\ pc = "fanning_out"
    /\ Submitted = DOMAIN future
    /\ pc' = "collecting"
    /\ UNCHANGED <<EDGE_DEVICES, world, request, patched, devices, max_workers, future,
                   posts, results, collected, response>>

\* A pool thread takes the task and issues the POST (send_http_command, 70-79).
StartPost(d) ==
    /\ d \in DOMAIN future
    /\ future[d].state = "queued"
    /\ Cardinality(Running) < max_workers
    /\ future' = [future EXCEPT ![d] = [state |-> "running"]]
    /\ posts' = [posts EXCEPT ![d] = Append(@, PostCall(UrlOf(devices, d), request.command_id,
                                                        request.sensor_id))]
    /\ UNCHANGED <<EDGE_DEVICES, world, request, patched, pc, devices, max_workers,
                   results, collected, response>>

\* Mutant: a POST that raised is attempted a second time.
FinishPost_Retry(d) ==
    /\ d \in DOMAIN future
    /\ future[d].state = "running"
    /\ \E b \in world :
          future' = [future EXCEPT ![d] =
                        IF b.net.kind = "raises" /\ Len(posts[d]) < 2
                        THEN [state |-> "queued"]
                        ELSE [state |-> "finished", behaviour |-> b,
                              result |-> send_http_command(UrlOf(devices, d), request.command_id,
                                                           request.sensor_id, b)]]
    /\ UNCHANGED <<EDGE_DEVICES, world, request, patched, pc, devices, max_workers,
                   posts, results, collected, response>>

\* Mutant: the worker stores its entry in the shared mapping itself.
FinishPost_WritesEntry(d) ==
    /\ d \in DOMAIN future
    /\ future[d].state = "running"
    /\ \E b \in world :
          LET result == send_http_command(UrlOf(devices, d), request.command_id,
                                          request.sensor_id, b)
          IN  /\ future' = [future EXCEPT ![d] =
                                [state |-> "finished", behaviour |-> b, result |-> result]]
              /\ results' = Assign(results, d, CollectEntry(result).value)
    /\ UNCHANGED <<EDGE_DEVICES, world, request, patched, pc, devices, max_workers,
                   posts, collected, response>>

\* The POST ends, the worker logs and its future is set (send_http_command, 79-84).
FinishPost(d) ==
    /\ d \in DOMAIN future
    /\ future[d].state = "running"
    /\ \E b \in world :
          future' = [future EXCEPT ![d] =
                        [state |-> "finished", behaviour |-> b,
                         result |-> send_http_command(UrlOf(devices, d), request.command_id,
                                                      request.sensor_id, b)]]
    /\ UNCHANGED <<EDGE_DEVICES, world, request, patched, pc, devices, max_workers,
                   posts, results, collected, response>>

\* Mutant: the loop is left at the first "error" entry.
Collect_BreakOnError(d) ==
    /\ pc = "collecting"
    /\ d \in DOMAIN future
    /\ future[d].state = "finished"
    /\ d \notin Range(collected)
    /\ LET out == CollectEntry(future[d].result)
       IN  IF out.kind = "returned"
           THEN /\ results' = Assign(results, d, out.value)
                /\ collected' = Append(collected, d)
                /\ pc' = IF out.value.status = "error" THEN "validating" ELSE pc
                /\ UNCHANGED response
           ELSE /\ response' = Unhandled(out.exc)
                /\ pc' = "done"
                /\ UNCHANGED <<results, collected>>
    /\ UNCHANGED <<EDGE_DEVICES, world, request, patched, devices, max_workers, future, posts>>

\* One turn of the as_completed loop (lines 123-174).
Collect(d) ==
    /\ pc = "collecting"
    /\ d \in DOMAIN future
    /\ future[d].state = "finished"
    /\ d \notin Range(collected)
    /\ LET out == CollectEntry(future[d].result)
       IN  IF out.kind = "returned"
           THEN /\ results' = Assign(results, d, out.value)
                /\ collected' = Append(collected, d)
                /\ UNCHANGED <<pc, response>>
           ELSE /\ response' = Unhandled(out.exc)
                /\ pc' = "done"
                /\ UNCHANGED <<results, collected>>
    /\ UNCHANGED <<EDGE_DEVICES, world, request, patched, devices, max_workers, future, posts>>

\* Mutant: the dispatcher returns what it has without waiting for the rest.
ReturnResults_Early ==
    /\ pc = "collecting"
    /\ pc' = "validating"
    /\ UNCHANGED <<EDGE_DEVICES, world, request, patched, devices, max_workers, future,
                   posts, results, collected, response>>

\* The loop is over, the pool is shut down, `return results` (line 175).
ReturnResults ==
    /\ pc = "collecting"
    /\ Range(collected) = DOMAIN future
    /\ pc' = "validating"
    /\ UNCHANGED <<EDGE_DEVICES, world, request, patched, devices, max_workers, future,
                   posts, results, collected, response>>

\* EdgeResults(edge=edge_results), lines 189-193.
Validate ==
    /\ pc = "validating"
    /\ IF ValidEdgeResults(results)
       THEN /\ pc' = "summarizing"
            /\ UNCHANGED response
       ELSE /\ response' = InvalidStructure(ValidationErrors(results))
            /\ pc' = "done"
    /\ UNCHANGED <<EDGE_DEVICES, world, request, patched, devices, max_workers, future,
                   posts, results, collected>>

\* The summaries and the response, lines 197-224.
Summarize ==
    /\ pc = "summarizing"
    /\ response' =
          IF \E d \in DOMAIN results : "status" \notin DOMAIN results[d]
          THEN Unhandled(Exc("KeyError", "'status'"))     \* res["status"], line 198
          ELSE LET sensors_status == SensorsStatus(<<>>, results, collected) IN
              IF sensors_status.kind = "raised" THEN Unhandled(sensors_status.exc)
              ELSE [kind |-> "json",
                    code |-> HttpCode(results),
                    status |-> OverallStatus(results),
                    message |-> Message(request),
                    devices |-> results,
                    connection_status |-> ConnectionStatus(results),
                    sensor_status |-> sensors_status.value]
    /\ pc' = "done"
    /\ UNCHANGED <<EDGE_DEVICES, world, request, patched, devices, max_workers, future,
                   posts, results, collected>>

Next ==
    \/ ValidateRequest
    \/ ResolveTargets
    \/ \E i \in DOMAIN devices : Submit(i)
    \/ BeginCollect
    \/ \E d \in DOMAIN future : StartPost(d)
    \/ \E d \in DOMAIN future : FinishPost(d)
    \/ \E d \in DOMAIN future : Collect(d)
    \/ ReturnResults
    \/ Validate
    \/ Summarize

Spec == Init /\ [][Next]_vars

----------------------------------------------------------------------------
(* The documented deployment: the four default devices of config.py, each  *)
(* answering HTTP 200 or HTTP 500 with a JSON body, or timing out          *)
(* (operator_api.py TEST 3).                                               *)

ScenarioWorld == {Behaviour(n, None) : n \in {Json200, Json500, TimedOut}}

InitScenario ==
    /\ EDGE_DEVICES = DEFAULT_EDGE_DEVICES
    /\ world = ScenarioWorld
    /\ request \in {ValidRequest(None, None), NoCommandRequest}
    /\ patched = Unpatched
    /\ Fresh

SpecScenario == InitScenario /\ [][Next]_vars

----------------------------------------------------------------------------
(* One device answering HTTP 200 with a JSON object whose "records" is any *)
(* list of up to MaxRecords entries, or is not a list of objects at all.   *)

RecordsBodies ==
    {Object(List(q)) : q \in SeqsUpTo(Records, MaxRecords)}
    \cup {Object(None), Object(Str("abc")), Object(Str("")), Object(Num(1)),
          Object(List(<<Str("t1")>>)), Object(MISSING)}

RecordsWorld ==
    {Behaviour(Response(200, JSON_CT, "{...}", body), None) : body \in RecordsBodies}
    \cup {Behaviour(TimedOut, None)}

InitRecords ==
    /\ EDGE_DEVICES = SubSeq(DEFAULT_EDGE_DEVICES, 1, 1)
    /\ world = RecordsWorld
    /\ request \in {ValidRequest(None, None), NoJsonRequest}
    /\ patched = Unpatched
    /\ Fresh

SpecRecords == InitRecords /\ [][Next]_vars

----------------------------------------------------------------------------
(* Two devices whose bodies name the same sensor with different statuses,  *)
(* or carry records that cannot be iterated, collected in either order.    *)

OrderBodies ==
    {Object(List(<<Record("t1", "OK")>>)),
     Object(List(<<Record("t1", "ERROR"), Record(ABSENT, "OK")>>)),
     Object(Num(1)),
     Object(Str("abc"))}

OrderWorld ==
    {Behaviour(Response(200, JSON_CT, "{...}", body), None) : body \in OrderBodies}
    \cup {Behaviour(TimedOut, None), Behaviour(Text200, None)}

InitOrder ==
    /\ EDGE_DEVICES = SubSeq(DEFAULT_EDGE_DEVICES, 1, MaxDevices)
    /\ world = OrderWorld
    /\ request \in {ValidRequest(None, None), ValidRequest(None, List(<<"t1">>))}
    /\ patched = Unpatched
    /\ Fresh

SpecOrder == InitOrder /\ [][Next]_vars

----------------------------------------------------------------------------
(* One device registered under any base address of up to MaxUrlLen tokens, *)
(* with and without trailing slashes.                                      *)

BaseUrls == SeqsUpTo({"/", "http://192.168.1.10:5000", "api"}, MaxUrlLen)

InitUrl ==
    /\ EDGE_DEVICES \in {<< <<"device_01", u>> >> : u \in BaseUrls}
    /\ world = {Behaviour(Json200, None), Behaviour(TimedOut, None)}
    /\ request = ValidRequest(None, None)
    /\ patched = Unpatched
    /\ Fresh

SpecUrl == InitUrl /\ [][Next]_vars

----------------------------------------------------------------------------
(* The same requests under different twin identifiers: the default one, an *)
(* absent or empty one (replaced by the default), and another twin's.      *)

TwinIds == {ABSENT, "", "etna_01", "stromboli_02"}

WithTwin(req, t) == [req EXCEPT !.twin_id = t]

InitTwin ==
    /\ EDGE_DEVICES = SubSeq(DEFAULT_EDGE_DEVICES, 1, MaxDevices)
    /\ world = ScenarioWorld
    /\ request \in {WithTwin(ValidRequest(g, s), t) :
                      g \in {None, List(<<"device_02">>)}, s \in {None, List(<<"t1">>)},
                      t \in TwinIds}
    /\ patched = Unpatched
    /\ Fresh

SpecTwin == InitTwin /\ [][Next]_vars

----------------------------------------------------------------------------
(* operator_api.py __main__: the handler with send_command_to_all_devices  *)
(* patched to return a mapping the test wrote (TEST 3 to TEST 7).          *)

\* build_mock_edge_results and the literal mappings of TEST 5 and TEST 6, with
\* the other ways an entry can lack a key.
PatchedEntries ==
    {SuccessEntry(200, DOCUMENTED_BODY),
     [status |-> "success"],
     [status |-> "success", code |-> 200],
     [status |-> "success", body |-> DOCUMENTED_BODY],
     ErrorEntry("Connection refused"),
     ErrorEntry("Timeout"),
     [status |-> "error"],
     [status |-> "unknown"],
     [wrong_field |-> "oops"]}

PatchedMappings(k) == [Keys(SubSeq(DEFAULT_EDGE_DEVICES, 1, k)) -> PatchedEntries]

PatchedReturns ==
    UNION {{Patched(m, KeySeq(SubSeq(DEFAULT_EDGE_DEVICES, 1, k))) : m \in PatchedMappings(k)} :
            k \in 0..MaxDevices}

\* with patch("...send_command_to_all_devices", return_value=mock_results):
CallPatched ==
    /\ pc = "resolving"
    /\ patched.on
    /\ results' = patched.return_value
    /\ collected' = patched.order
    /\ pc' = "validating"
    /\ UNCHANGED <<EDGE_DEVICES, world, request, patched, devices, max_workers,
                   future, posts, response>>

InitPatched ==
    /\ EDGE_DEVICES = DEFAULT_EDGE_DEVICES
    /\ world = {}
    /\ request \in {ValidRequest(None, None), NoJsonRequest, NoCommandRequest}
    /\ patched \in PatchedReturns
    /\ Fresh

NextPatched ==
    \/ ValidateRequest
    \/ CallPatched
    \/ Validate
    \/ Summarize

SpecPatched == InitPatched /\ [][NextPatched]_vars

----------------------------------------------------------------------------
(* Progress.  The calling thread and the pool threads are scheduled by the *)
(* operating system, requests.post ends at the latest when its timeout     *)
(* expires, and as_completed yields every finished future: a step that is  *)
(* possible is eventually taken.  Runs with list filters (and a string     *)
(* that names no device) over devices that answer 200, answer 500 or time  *)
(* out, with calls that raise an unexpected exception and with a logger    *)
(* that raises.                                                            *)

ProgressWorld ==
    ScenarioWorld \cup {Behaviour(Unexpected, None), Behaviour(TimedOut, LogFails)}

InitProgress ==
    /\ EDGE_DEVICES \in Registries
    /\ world = ProgressWorld
    /\ request \in {ValidRequest(g, None) : g \in GatewayLists \cup {None, Str("all")}}
    /\ patched = Unpatched
    /\ Fresh

SpecProgress == InitProgress /\ [][Next]_vars /\ WF_vars(Next)

----------------------------------------------------------------------------
(* Properties.                                                             *)

\* send_command_to_all_devices has been entered / has returned its mapping.
Resolved == max_workers > 0
DispatchReturned == Resolved /\ pc \in {"validating", "summarizing", "done"}

\* The target set the request asks for, as a set.
RequestedTargets ==
    IF request.gateway_id = None THEN Keys(EDGE_DEVICES)
    ELSE IF request.gateway_id.type = "list"
         THEN Keys(EDGE_DEVICES) \cap Range(request.gateway_id.items)
         ELSE {}

Finished(d) == d \in DOMAIN future /\ future[d].state = "finished"
WorkerRaised(d) == Finished(d) /\ future[d].result.kind = "raised"
WorkerGotResponse(d) ==
    Finished(d) /\ future[d].result.kind = "returned" /\ future[d].result.value # None
WorkerGotNone(d) == Finished(d) /\ future[d].result = Returned(None)

\* C1: once the dispatcher is past its collection loop, the keys of the result
\* mapping are exactly the resolved targets, each collected once, whatever the
\* devices did.
C1_KeysAreTargets ==
    DispatchReturned =>
        /\ DOMAIN results = Keys(devices)
        /\ Len(collected) = Len(devices)
        /\ Range(collected) = Keys(devices)

\* Two targets, one whose worker raised and one without a response: both have
\* their entry in the returned mapping.
C1_Witness ==
    /\ pc = "validating"
    /\ Len(devices) = 2
    /\ \E d1, d2 \in DOMAIN results :
          WorkerRaised(d1) /\ WorkerGotNone(d2) /\ results[d2].status = "error"

\* C2: the resolved targets are every registry key without a filter, and the
\* registry keys that the filter names with one; nothing else is posted to,
\* nothing else gets an entry, and resolution raises nothing.
C2_TargetResolution ==
    (Resolved /\ request.gateway_id.type \in {"None", "list"}) =>
        /\ Keys(devices) = RequestedTargets
        /\ \A d \in DOMAIN posts : posts[d] # <<>> => d \in RequestedTargets
        /\ DOMAIN results \subseteq RequestedTargets
        /\ DispatchReturned => DOMAIN results = RequestedTargets
        /\ response.kind # "exception"

\* A filter naming a registered and an unregistered id: the dispatcher returned
\* an entry for the registered one only, after one POST.
C2_Witness ==
    /\ pc = "validating"
    /\ request.gateway_id.type = "list"
    /\ UNKNOWN_DEVICE \in Range(request.gateway_id.items)
    /\ Len(EDGE_DEVICES) = 2
    /\ DOMAIN results = {"device_01"}
    /\ Len(posts["device_01"]) = 1
    /\ posts["device_02"] = <<>>

\* C3 as claimed: after fan-out the response is "success"/200 when some target
\* has a Success outcome and "error"/502 when none has.
C3_OverallOutcome ==
    (pc = "done" /\ Resolved) =>
        /\ response.kind = "json"
        /\ AnySuccess(results) => (response.status = "success" /\ response.code = 200)
        /\ ~AnySuccess(results) => (response.status = "error" /\ response.code = 502)

\* C4: whatever a worker raised, and whatever decoding raised, ends as that
\* device's "error" entry with the exception's description; no exception leaves
\* the collection loop.
C4_ExceptionsBecomeEntries ==
    /\ ~(response.kind = "exception" /\ Range(collected) # DOMAIN future)
    /\ \A d \in Range(collected) :
          /\ WorkerRaised(d) => results[d] = ErrorEntry(future[d].result.exc.desc)
          /\ (/\ WorkerGotResponse(d)
              /\ ContainsApplicationJson(future[d].result.value.content_type)
              /\ future[d].result.value.json = UNDECODABLE)
             => results[d] = ErrorEntry(JSON_DECODE_ERROR.desc)

\* A worker raised, another device's body did not decode, and the dispatcher
\* returned with an entry for both.
C4_Witness ==
    /\ pc = "validating"
    /\ \E d1, d2 \in DOMAIN results :
          /\ WorkerRaised(d1) /\ results[d1].status = "error"
          /\ WorkerGotResponse(d2) /\ future[d2].result.value.json = UNDECODABLE
          /\ results[d2] = ErrorEntry(JSON_DECODE_ERROR.desc)

\* C5 as claimed: however the POST and the logging end, send_http_command
\* returns a value, and the value is the one it returns when logging succeeds.
C5_SendNeverRaises ==
    \A d \in DOMAIN future :
        Finished(d) =>
            /\ future[d].result.kind = "returned"
            /\ future[d].result =
                  send_http_command(UrlOf(devices, d), request.command_id, request.sensor_id,
                                    Behaviour(future[d].behaviour.net, None))

\* The entry a received response becomes when every response is a Success.
SuccessOf(r) ==
    SuccessEntry(r.status_code,
                 IF ContainsApplicationJson(r.content_type) THEN r.json ELSE Str(r.text))

\* C6 as claimed: every response the collector receives becomes a Success entry
\* with the response's code and its decoded or raw body.
C6_EveryResponseIsSuccess ==
    \A d \in Range(collected) :
        WorkerGotResponse(d) =>
            /\ results[d] = SuccessOf(future[d].result.value)
            /\ results[d].body # UNDECODABLE

\* C6 as amended: a response becomes a Success entry with its code and its
\* decoded (JSON content type) or raw (other content type) body, except that a
\* JSON content type with a body that does not decode gives an "error" entry
\* with the decoder's message; a None from the worker gives "No response from
\* device.".
C6_ResponseEntries ==
    \A d \in Range(collected) :
        /\ WorkerGotResponse(d) =>
              LET r == future[d].result.value IN
              IF ContainsApplicationJson(r.content_type) /\ r.json = UNDECODABLE
              THEN results[d] = ErrorEntry(JSON_DECODE_ERROR.desc)
              ELSE results[d] = SuccessOf(r)
        /\ WorkerGotNone(d) => results[d] = ErrorEntry("No response from device.")

\* Collected side by side: an undecodable JSON body as "error", a non-JSON
\* body as "success" with the raw text.
C6_Witness ==
    \E d1, d2 \in Range(collected) :
        /\ WorkerGotResponse(d1) /\ future[d1].result.value = BadJson200
        /\ results[d1].status = "error"
        /\ WorkerGotResponse(d2) /\ future[d2].result.value = Text200
        /\ results[d2] = SuccessEntry(200, Str("pong"))

\* C7 as claimed: every entry is exactly one variant, a success with a
\* non-negative code, or an error with a non-empty description.
C7_OutcomeInvariant ==
    \A d \in DOMAIN results :
        LET e == results[d] IN
        IF e.status = "success"
        THEN DOMAIN e = {"status", "code", "body"} /\ e.code \in Nat
        ELSE e.status = "error" /\ DOMAIN e = {"status", "error"} /\ e.error # ""

\* The handler answered with its summary.
Summarized == pc = "done" /\ response.kind = "json" /\ "connection_status" \in DOMAIN response

\* C8: connection_status has the keys of the dispatch result, each value is
\* "success" or "error" by the variant of the entry alone (HTTP 500 with JSON is
\* "success", a timeout is "error"), and there are as many "error" values as
\* Failure outcomes.
C8_ConnectionStatus ==
    Summarized =>
        LET cs == response.connection_status IN
        /\ DOMAIN cs = DOMAIN results
        /\ DOMAIN cs = Keys(devices)
        /\ \A d \in DOMAIN cs :
              /\ cs[d] \in {"success", "error"}
              /\ cs[d] = "success" <=> "code" \in DOMAIN results[d]
              /\ cs[d] = "error" <=> "error" \in DOMAIN results[d]
              /\ future[d].behaviour.net = Json500 => cs[d] = "success"
              /\ future[d].behaviour.net = TimedOut => cs[d] = "error"
        /\ Cardinality({d \in DOMAIN cs : cs[d] = "error"})
              = Cardinality({d \in DOMAIN results : results[d].status = "error"})

\* Four devices, three answering HTTP 200 with JSON and one timing out: overall
\* "success", four entries, exactly one "error".
C8_Witness ==
    /\ Summarized
    /\ Len(devices) = 4
    /\ Cardinality({d \in DOMAIN future : future[d].behaviour.net = Json200}) = 3
    /\ Cardinality({d \in DOMAIN future : future[d].behaviour.net = TimedOut}) = 1
    /\ response.status = "success"
    /\ Cardinality(DOMAIN response.devices) = 4
    /\ Cardinality({d \in DOMAIN response.connection_status :
                        response.connection_status[d] = "error"}) = 1

\* C9 as claimed: every entry of every records list is in sensor_status under
\* "<deviceId>:<id or unknown_sensor>" with its own status.
C9_NoRecordLost ==
    Summarized =>
        \A d \in DOMAIN results :
            (/\ results[d].status = "success"
             /\ results[d].body.type = "dict"
             /\ results[d].body.records.type = "list")
            => \A i \in DOMAIN results[d].body.records.items :
                  LET record == results[d].body.records.items[i]
                      key == SensorKey(d, RecordId(record))
                  IN  /\ key \in DOMAIN response.sensor_status
                      /\ response.sensor_status[key] = RecordStatus(record)

\* The DeviceOutcome invariant of an entry, by the keys it has.
WellFormedEntry(e) ==
    /\ "status" \in DOMAIN e
    /\ e.status \in {"success", "error"}
    /\ e.status = "success" => {"code", "body"} \subseteq DOMAIN e
    /\ e.status = "error" => "error" \in DOMAIN e

\* C10 as claimed: a mapping with an entry that breaks the DeviceOutcome
\* invariant is answered with "Invalid response structure", and no such entry
\* is summarised.
C10_ValidationEnforcesInvariant ==
    /\ pc = "summarizing" => \A d \in DOMAIN results : WellFormedEntry(results[d])
    /\ (pc = "done" /\ patched.on /\ response.kind # "none" /\ response.code # 400
          /\ \E d \in DOMAIN results : ~WellFormedEntry(results[d]))
       => response = InvalidStructure(ValidationErrors(results))

\* C11: a mapping with an entry that lacks the status field is answered with
\* HTTP 502, the message "Invalid response structure from devices" and the
\* validation details naming that entry's status field; the answer carries none
\* of the summary's views (devices, connection_status, sensor_status).
C11_ShapeFailureReported ==
    (pc = "done" /\ \E d \in DOMAIN results : "status" \notin DOMAIN results[d])
    => /\ response.kind = "json"
       /\ response.code = 502
       /\ response.status = "error"
       /\ response.message = "Invalid response structure from devices"
       /\ DOMAIN response \cap {"devices", "connection_status", "sensor_status"} = {}
       /\ \A d \in DOMAIN results :
             "status" \notin DOMAIN results[d] => <<d, "status">> \in response.details

\* TEST 6: the dispatcher returned {"device_01": {"wrong_field": "oops"}} and the
\* handler answered 502 with the details.
C11_Witness ==
    /\ pc = "done"
    /\ patched.on
    /\ results = [d \in {"device_01"} |-> [wrong_field |-> "oops"]]
    /\ response = InvalidStructure({<<"device_01", "status">>})

\* C12 as claimed: whatever body a device answers with (a JSON object, array,
\* number, boolean or null, or plain text), the entry the dispatcher builds from
\* the response passes EdgeResults validation, and a dispatch over real devices
\* never ends in the "Invalid response structure" answer.
C12_AnyBodyValidates ==
    /\ \A d \in Range(collected) : WorkerGotResponse(d) => ValidDeviceResult(results[d])
    /\ (Resolved /\ pc = "done") => "details" \notin DOMAIN response

\* No device has been posted to.
NoPost == \A d \in DOMAIN posts : posts[d] = <<>>

\* The handler answered HTTP 400 with status "error".
Rejected == response.kind = "json" /\ response.code = 400 /\ response.status = "error"

\* C13 as claimed: a request without a JSON body, or whose command_id is
\* missing or empty, is answered with HTTP 400 and status "error", the
\* dispatcher is never invoked for it and no device is posted to.
C13_CommandIdRequired ==
    (request.data # "object" \/ request.command_id \in {ABSENT, ""})
    => /\ ~Resolved
       /\ NoPost
       /\ pc \in {"request", "done"}
       /\ pc = "done" => Rejected

\* C14 as claimed: a request whose gateway_id is present and is not a list is
\* rejected, the dispatcher resolves no target for it and no device is posted
\* to.
C14_TargetListRequired ==
    request.gateway_id.type \notin {"None", "list"}
    => /\ devices = <<>>
       /\ NoPost
       /\ pc = "done" => Rejected

\* The unpatched dispatcher is between its entry and the handler's answer.
Dispatching ==
    ~patched.on /\ pc \in {"fanning_out", "collecting", "validating", "summarizing"}

\* With no target resolved the pool has one worker, no task is submitted, no
\* device is posted to and the mapping stays empty.
EmptyTargetSetIsInert ==
    (Dispatching /\ devices = <<>>)
    => /\ max_workers = 1
       /\ future = <<>>
       /\ NoPost
       /\ results = <<>>
       /\ collected = <<>>

\* C15: a dispatch whose resolved target set is empty (empty registry, empty
\* device list, unknown ids only) creates its pool with one worker, issues no
\* network call, and returns the empty mapping: once entered with no target,
\* the dispatcher eventually returns.
C15_EmptyTargetSet ==
    /\ []EmptyTargetSetIsInert
    /\ (pc = "fanning_out" /\ devices = <<>>) ~> (DispatchReturned /\ results = <<>>)

\* A non-empty registry and a filter naming an unknown id only: the dispatcher
\* returned the empty mapping from a pool of one worker.
C15_Witness ==
    /\ pc = "validating"
    /\ EDGE_DEVICES # <<>>
    /\ request.gateway_id = List(<<UNKNOWN_DEVICE>>)
    /\ devices = <<>>
    /\ max_workers = 1
    /\ results = <<>>
    /\ NoPost

\* C16: for a sensors argument that is None or a list, the JSON body of every
\* POST has exactly the keys command and sensors, carries the command, and its
\* sensors is a list: the empty list for None and for the empty list (the two
\* give the identical body), the given list unchanged otherwise.
C16_PayloadRoundTrip ==
    /\ Payload(request.command_id, None) = Payload(request.command_id, List(<<>>))
    /\ \A d \in DOMAIN posts : \A i \in DOMAIN posts[d] :
          LET json == posts[d][i].json IN
          /\ DOMAIN json = {"command", "sensors"}
          /\ json.command = request.command_id
          /\ json.sensors.type = "list"
          /\ request.sensor_id \in {None, List(<<>>)}
                => json = [command |-> request.command_id, sensors |-> List(<<>>)]
          /\ request.sensor_id \notin {None, List(<<>>)} => json.sensors = request.sensor_id

\* A request without sensor_id has been posted with "sensors": [].
C16_Witness ==
    \E d \in DOMAIN posts :
        /\ posts[d] # <<>>
        /\ request.sensor_id = None
        /\ posts[d][1].json = [command |-> "cmd_01", sensors |-> List(<<>>)]

\* C17: within one dispatch no device is posted to twice, whatever its call
\* did and however often the filter names it; a device that is not a target is
\* not posted to; every POST carries the request's command and sensors to the
\* device's own notify URL; and when the dispatcher has returned, every target
\* has been posted to once.
C17_SingleAttempt ==
    /\ \A d \in DOMAIN posts :
          /\ Len(posts[d]) <= 1
          /\ d \notin Keys(devices) => posts[d] = <<>>
          /\ \A i \in DOMAIN posts[d] :
                /\ posts[d][i].json = Payload(request.command_id, request.sensor_id)
                /\ posts[d][i] = PostCall(UrlOf(devices, d), request.command_id,
                                          request.sensor_id)
    /\ DispatchReturned => \A d \in Keys(devices) : Len(posts[d]) = 1

\* The filter names device_01 twice, its call timed out, and the dispatcher
\* returned after one POST to it and none to device_02.
C17_Witness ==
    /\ pc = "validating"
    /\ Len(EDGE_DEVICES) = 2
    /\ request.gateway_id = List(<<"device_01", "device_01">>)
    /\ future["device_01"].behaviour.net = TimedOut
    /\ Len(posts["device_01"]) = 1
    /\ posts["device_02"] = <<>>

\* C18: when the dispatcher has returned, every worker it launched has
\* finished, has been collected, and has its entry in the mapping; there is a
\* worker for every target.
C18_NoPartialReturn ==
    (DispatchReturned /\ ~patched.on)
    => /\ DOMAIN future = Keys(devices)
       /\ \A d \in DOMAIN future :
             /\ future[d].state = "finished"
             /\ d \in Range(collected)
             /\ d \in DOMAIN results

\* Two workers, the second finished and collected first, the first timed out:
\* the dispatcher returned with both entries.
C18_Witness ==
    /\ pc = "validating"
    /\ collected = <<"device_02", "device_01">>
    /\ future["device_01"].behaviour.net = TimedOut
    /\ future["device_02"].state = "finished"
    /\ DOMAIN results = {"device_01", "device_02"}

\* The entry that the outcome of a device's own call determines.
OwnEntry(d) ==
    CollectEntry(send_http_command(UrlOf(devices, d), request.command_id, request.sensor_id,
                                   future[d].behaviour)).value

\* C19: the entry of a device is, from the moment it is written, the entry its
\* own call's outcome determines, whatever the other workers did; entries are
\* written by collection only; and a timeout, a transport failure or an
\* unexpected exception of one worker neither ends the collection loop nor
\* keeps any other target out of the returned mapping.
C19_SiblingIsolation ==
    /\ \A d \in Range(collected) : results[d] = OwnEntry(d)
    /\ ~patched.on => DOMAIN results = Range(collected)
    /\ (pc = "done" /\ Resolved) => Range(collected) = Keys(devices)
    /\ (DispatchReturned /\ ~patched.on) => DOMAIN results = Keys(devices)

\* device_01 raised an unexpected exception and was collected first;
\* device_02 was collected after it with its own Success entry.
C19_Witness ==
    /\ pc = "validating"
    /\ collected = <<"device_01", "device_02">>
    /\ future["device_01"].behaviour.net = Unexpected
    /\ results["device_01"] = ErrorEntry("boom")
    /\ future["device_02"].behaviour.net = Json200
    /\ results["device_02"] = SuccessEntry(200, DOCUMENTED_BODY)

\* The handler's answer as its caller sees it: the JSON document, or HTTP 500
\* for an exception that left the handler.
Visible(r) == IF r.kind = "exception" THEN [kind |-> "exception"] ELSE r

\* The answer computed from the targets in registry order and each device's
\* own outcome, without reference to the order of completion.
OrderFreeResponse ==
    LET edge == [d \in Keys(devices) |-> OwnEntry(d)]
        sensors_status == SensorsStatus(<<>>, edge, KeySeq(devices))
    IN  IF ~ValidEdgeResults(edge) THEN InvalidStructure(ValidationErrors(edge))
        ELSE IF sensors_status.kind = "raised" THEN [kind |-> "exception"]
        ELSE [kind |-> "json",
              code |-> HttpCode(edge),
              status |-> OverallStatus(edge),
              message |-> Message(request),
              devices |-> edge,
              connection_status |-> ConnectionStatus(edge),
              sensor_status |-> sensors_status.value]

\* C20: for the same targets and the same outcome of each device, the answer
\* of send_command (devices, connection_status, sensor_status, overall status
\* and code) is the same in whatever order the workers completed and were
\* collected.
C20_NoOrderingDependency ==
    (pc = "done" /\ Resolved) => Visible(response) = OrderFreeResponse

\* The second device was collected before the first, both bodies name sensor
\* t1, and the summary holds each device's own status for it.
C20_Witness ==
    /\ Summarized
    /\ collected = <<"device_02", "device_01">>
    /\ {"device_01:t1", "device_02:t1"} \subseteq DOMAIN response.sensor_status
    /\ response.sensor_status["device_01:t1"] = "OK"
    /\ response.sensor_status["device_02:t1"] = "ERROR"

\* A step that changes the mapping is a step of the collecting thread: it
\* adds the entry of one finished, not yet collected device and changes no
\* future and no POST.
WrittenByCollector ==
    /\ pc = "collecting"
    /\ future' = future
    /\ posts' = posts
    /\ \E d \in DOMAIN future :
          /\ future[d].state = "finished"
          /\ d \notin DOMAIN results
          /\ DOMAIN results' = DOMAIN results \cup {d}
          /\ collected' = Append(collected, d)

\* C21: in every interleaving of one dispatch, the results mapping changes
\* only in steps of the collecting thread, each such step writes the key of one
\* device that had no entry yet, and an entry once written is neither
\* overwritten nor removed.
C21_NoLostWrites ==
    [][/\ \A d \in DOMAIN results : d \in DOMAIN results' /\ results'[d] = results[d]
       /\ results' # results => WrittenByCollector]_vars

\* Both workers had finished before the first was collected, and both
\* entries are in the mapping, each written once.
C21_Witness ==
    /\ pc = "validating"
    /\ Len(collected) = 2
    /\ DOMAIN results = {"device_01", "device_02"}
    /\ results["device_01"] = ErrorEntry("No response from device.")
    /\ results["device_02"] = SuccessEntry(500, Object(MISSING))

\* C22: the pool of a dispatch has max(1, number of targets) workers; every
\* target's task is submitted before the first result is collected; and a
\* submitted task never has to wait for another call of the dispatch to end:
\* while it is queued a pool thread is free to take it.
C22_FanOutWithoutWaiting ==
    Dispatching =>
        /\ max_workers = IF Len(devices) > 1 THEN Len(devices) ELSE 1
        /\ DOMAIN future = Keys(devices)
        /\ pc # "fanning_out" => Submitted = DOMAIN future
        /\ collected # <<>> => Submitted = DOMAIN future
        /\ \A d \in DOMAIN future :
              future[d].state = "queued" => Cardinality(Running) < max_workers

\* Both targets' calls are in flight at once, before anything is collected.
C22_Witness ==
    /\ Len(devices) = 2
    /\ max_workers = 2
    /\ Running = {"device_01", "device_02"}
    /\ Len(posts["device_01"]) = 1
    /\ Len(posts["device_02"]) = 1
    /\ collected = <<>>

\* C23: a dispatch with at least one target, whose workers' calls each end
\* (with a response or with a failure), returns: from the moment the targets
\* are resolved, the dispatcher eventually hands back its mapping with an
\* entry for every target, whatever combination of devices failed.
C23_Completion ==
    (pc = "fanning_out" /\ devices # <<>>)
        ~> (pc = "validating" /\ DOMAIN results = Keys(devices))

\* Every target failed (a timeout and an unexpected exception) and the
\* dispatcher has returned.
C23_Witness ==
    /\ pc = "validating"
    /\ Len(devices) = 2
    /\ future["device_01"].behaviour.net = TimedOut
    /\ future["device_02"].behaviour.net = Unexpected
    /\ DOMAIN results = {"device_01", "device_02"}

\* The phases of a run in their order; a run that ends early goes to "done".
PhaseRank(p) ==
    CASE p = "request" -> 0
      [] p = "resolving" -> 1
      [] p = "fanning_out" -> 2
      [] p = "collecting" -> 3
      [] p = "validating" -> 4
      [] p = "summarizing" -> 5
      [] p = "done" -> 6

\* What holds in the late phases.
PhaseConditions ==
    /\ (pc \in {"validating", "summarizing"} /\ ~patched.on)
          => /\ Range(collected) = DOMAIN future
             /\ \A d \in DOMAIN future : future[d].state = "finished"
    /\ pc = "summarizing" => \A d \in DOMAIN results : ValidDeviceResult(results[d])
    /\ (pc = "done" /\ "devices" \in DOMAIN response)
          => \A d \in DOMAIN results : ValidDeviceResult(results[d])

\* A step never goes back to an earlier phase, enters a phase from the one
\* before it (or ends the run), and issues no POST from validation on.
PhaseStep ==
    /\ pc' # pc =>
          /\ PhaseRank(pc') > PhaseRank(pc)
          /\ pc' \in {"fanning_out", "collecting", "summarizing"}
                => PhaseRank(pc') = PhaseRank(pc) + 1
          /\ pc' = "validating" => pc \in {"collecting", "resolving"}
          /\ (pc' = "validating" /\ pc = "resolving") => patched.on
    /\ PhaseRank(pc) >= PhaseRank("validating") => posts' = posts /\ future' = future

\* C24: the phases of a run occur in the order resolving, fanning out,
\* collecting, validating, summarizing, done, none is entered twice and none is
\* returned to; validation starts only when every worker has been collected,
\* the summaries are computed only for a mapping that passed validation, and
\* no POST is issued from validation on.
C24_PhasesInOrder == []PhaseConditions /\ [][PhaseStep]_vars

\* A run that went through every phase and answered with its summary.
C24_Witness ==
    /\ pc = "done"
    /\ Summarized
    /\ Len(collected) = 2
    /\ \A d \in DOMAIN posts : Len(posts[d]) = 1

\* C25: no step of a dispatch changes cfg.EDGE_DEVICES: the registry has the
\* same ids and addresses, in the same order, after every step of the
\* resolution, of the workers and of the collection, with or without a filter.
C25_RegistryUnchanged == [][EDGE_DEVICES' = EDGE_DEVICES]_vars

\* A filter kept one of two registered devices, the dispatcher has returned,
\* and the registry still holds both with their addresses.
C25_Witness ==
    /\ pc = "validating"
    /\ request.gateway_id = List(<<"device_02">>)
    /\ Keys(devices) = {"device_02"}
    /\ EDGE_DEVICES = SubSeq(DEFAULT_EDGE_DEVICES, 1, 2)

\* The number of tokens of a base address up to its last token that is not
\* a slash.
StrippedLen(b) ==
    IF \A i \in DOMAIN b : b[i] = "/" THEN 0
    ELSE CHOOSE k \in DOMAIN b : b[k] # "/" /\ \A j \in (k + 1)..Len(b) : b[j] = "/"

\* A URL has "//notify" in it.
HasDoubleSlashNotify(u) ==
    \E i \in 1..(Len(u) - 2) : u[i] = "/" /\ u[i + 1] = "/" /\ u[i + 2] = "notify"

\* C26: the URL a device is posted to is its base address without its
\* trailing slashes followed by "/notify"; the base address and the base
\* address with one more slash at its end give the same URL; and the URL
\* never has "//notify" in it.
C26_EndpointNormalization ==
    \A d \in DOMAIN posts : \A i \in DOMAIN posts[d] :
        LET b == UrlOf(EDGE_DEVICES, d)
            url == posts[d][i].url
        IN  /\ url = SubSeq(b, 1, StrippedLen(b)) \o <<"/", "notify">>
            /\ url = _build_url(b \o <<"/">>)
            /\ ~HasDoubleSlashNotify(url)

\* A base address ending in a slash was posted to at ".../api/notify".
C26_Witness ==
    /\ UrlOf(EDGE_DEVICES, "device_01") = <<"http://192.168.1.10:5000", "api", "/">>
    /\ Len(posts["device_01"]) = 1
    /\ posts["device_01"][1].url = <<"http://192.168.1.10:5000", "api", "/", "notify">>

\* C27 as claimed: for a mapping that passed validation, whatever the records
\* of a success body are (null, a string, a number, a list with items that are
\* not objects) and whether or not a success entry has a body, the handler
\* answers with an HTTP response and no exception leaves it.
C27_SummaryIsTotal ==
    /\ pc = "summarizing" => SensorsStatus(<<>>, results, collected).kind = "returned"
    /\ pc = "done" => response.kind = "json"

\* C28: a request that names a command but has no target object, an empty
\* target object, or no issued_by is answered with HTTP 400 "Missing required
\* fields", the dispatcher is not entered for it and no device is posted to.
C28_TargetAndIssuerRequired ==
    (/\ request.data = "object"
     /\ request.command_id # ABSENT
     /\ (request.target \in {"absent", "empty"} \/ request.issued_by = ABSENT))
    => /\ ~Resolved
       /\ NoPost
       /\ pc \in {"request", "done"}
       /\ pc = "done"
             => response = ErrorResponse(400, "Missing required fields: target, command_id, issued_by")

\* The request with "target": {} has been answered with 400 and two registered
\* devices have not been posted to.
C28_Witness ==
    /\ pc = "done"
    /\ request = EmptyTargetRequest
    /\ Len(EDGE_DEVICES) = 2
    /\ Rejected
    /\ NoPost

\* The sensor_status keys a device's entry can produce: one per record of a
\* success body's records list.
KeysOf(d, entry) ==
    IF /\ entry.status = "success"
       /\ "body" \in DOMAIN entry
       /\ entry.body.type = "dict"
       /\ entry.body.records # MISSING
       /\ entry.body.records.type = "list"
    THEN {SensorKey(d, RecordId(entry.body.records.items[i])) :
            i \in DOMAIN entry.body.records.items}
    ELSE {}

\* C29: in every summary response, devices and connection_status have the
\* same keys, the overall status is "success" exactly when some
\* connection_status value is "success", every sensor_status key comes from a
\* record of a device whose connection_status is "success", and a device whose
\* status is "error" has no sensor_status key.
C29_ViewsAreConsistent ==
    Summarized =>
        LET cs == response.connection_status
            ok == {d \in DOMAIN cs : cs[d] = "success"}
        IN  /\ DOMAIN response.devices = DOMAIN cs
            /\ response.status = "success" <=> ok # {}
            /\ response.code = 200 <=> ok # {}
            /\ DOMAIN response.sensor_status = UNION {KeysOf(d, response.devices[d]) : d \in ok}
            /\ \A d \in DOMAIN cs :
                  cs[d] = "error" =>
                      \A id \in {"t1", "x1", "unknown_sensor"} :
                          SensorKey(d, id) \notin DOMAIN response.sensor_status

\* One device answered with a record and the other timed out: overall
\* "success", and the only sensor_status key is the first device's.
C29_Witness ==
    /\ Summarized
    /\ response.status = "success"
    /\ response.connection_status = [d \in {"device_01", "device_02"} |->
                                        IF d = "device_01" THEN "success" ELSE "error"]
    /\ DOMAIN response.sensor_status = {"device_01:t1"}

\* What a call of the dispatcher with arguments a resolves and sends, and
\* what it returns when device d behaves as outcome[d].
TargetsOf(a) == ResolveDevices(EDGE_DEVICES, a.device_ids)
CallsOf(a) ==
    [d \in Keys(TargetsOf(a)) |-> PostCall(UrlOf(TargetsOf(a), d), a.command, a.sensors)]
MappingOf(a, outcome) ==
    [d \in Keys(TargetsOf(a)) |->
        CollectEntry(send_http_command(UrlOf(TargetsOf(a), d), a.command, a.sensors,
                                       outcome[d])).value]

\* C30: what the dispatcher of this run resolved, posted and returned is what
\* a call that differs only in the twin identifier resolves, posts and, with
\* the same device behaviour, returns.
C30_TwinDoesNotInfluence ==
    \A t \in TwinIds :
        LET a == DispatchArgs(WithTwin(request, t)) IN
        /\ Dispatching => devices = TargetsOf(a)
        /\ \A d \in DOMAIN posts :
              /\ posts[d] # <<>> => d \in DOMAIN CallsOf(a)
              /\ \A i \in DOMAIN posts[d] : posts[d][i] = CallsOf(a)[d]
        /\ DispatchReturned
              => /\ \A d \in Keys(TargetsOf(a)) : Len(posts[d]) = 1
                 /\ results = MappingOf(a, [d \in DOMAIN future |-> future[d].behaviour])

\* A request for another twin than the default one was dispatched to both
\* devices and the dispatcher returned an entry for each.
C30_Witness ==
    /\ pc = "validating"
    /\ request.twin_id = "stromboli_02"
    /\ request.gateway_id = None
    /\ DOMAIN results = {"device_01", "device_02"}
    /\ \A d \in DOMAIN posts : Len(posts[d]) = 1

====
